---- MODULE Spec2Model ----
(***************************************************************************)
(* A model of aleph_alpha_client.AlephAlphaClient: construction (version   *)
(* check, token exchange), the request-building operations with their      *)
(* parameter validation, and the translation of HTTP status codes into     *)
(* results or raised errors.                                               *)
(*                                                                         *)
(* Python values are tagged records [t, v]; a handler is an operator from  *)
(* its arguments and the server's answers to the record                    *)
(*   [requests, outcome, log]                                              *)
(* of the HTTP requests it issued, what it returned or raised, and what it *)
(* logged or printed.  One action runs one whole handler.                  *)
(***************************************************************************)
EXTENDS Integers, Sequences, FiniteSets, TLC

VARIABLES
    client,   \* the constructed AlephAlphaClient (self.host, self.token), or NoClient
    last      \* the invocation the caller has just made: its arguments and what it did

vars == <<client, last>>

-----------------------------------------------------------------------------
(* Bounds of the model *)

\* integer arguments range over -1 .. MaxInt
MaxInt == 2

-----------------------------------------------------------------------------
(* Python values *)

PyNone == [t |-> "none", v |-> 0]
PyInt(i) == [t |-> "int", v |-> i]
\* a float is carried in half units: PyFloat(1) is 0.5, PyFloat(2) is 1.0
PyFloat(h) == [t |-> "float", v |-> h]
PyBool(b) == [t |-> "bool", v |-> IF b THEN 1 ELSE 0]
PyStr(s) == [t |-> "str", v |-> s]
PyList(l) == [t |-> "list", v |-> l]
\* a dict is carried as the sequence of its (key, value) items
PyDict(items) == [t |-> "dict", v |-> items]

\* isinstance(x, cls); bool is a subclass of int
isinstance(x, cls) ==
    IF cls = "int" THEN x.t \in {"int", "bool"} ELSE x.t = cls

\* float(x) for an int (or bool) x
float(x) == [t |-> "float", v |-> x.v + x.v]

\* the float literals 0.0 and 1.0
Float0 == float(PyInt(0))
Float1 == float(PyInt(1))

\* truth value of x, as `x or y` tests it
truthy(x) ==
    CASE x.t = "none" -> FALSE
      [] x.t = "str" -> x.v # ""
      [] x.t \in {"list", "dict"} -> x.v # <<>>
      [] OTHER -> x.v # 0

\* str.startswith on character sequences
startswith(s, prefix) ==
    /\ Len(prefix) <= Len(s)
    /\ SubSeq(s, 1, Len(prefix)) = prefix

-----------------------------------------------------------------------------
(* What a handler does *)

Return(value) == [kind |-> "return", value |-> value]
Raise(exc, args) == [kind |-> "raise", exc |-> exc, args |-> args]

Did(requests, outcome, log) ==
    [requests |-> requests, outcome |-> outcome, log |-> log]

NoHeaders == [Authorization |-> "", UserAgent |-> ""]
NoJson == PyNone

Request(method, url, headers, json) ==
    [method |-> method, url |-> url, headers |-> headers, json |-> json]

-----------------------------------------------------------------------------
(* Response translation *)

\* the status codes a server answers with
Statuses == {200, 400, 401, 402, 408, 500}

\* variant: _translate_errors without the 408 branch
TranslateErrorsNo408(response) ==
    IF response.status_code = 200
    THEN Return(response.json)
    ELSE IF response.status_code = 400
         THEN Raise("ValueError", <<response.status_code, response.json>>)
    ELSE IF response.status_code = 401
         THEN Raise("PermissionError", <<response.status_code, response.json>>)
    ELSE IF response.status_code = 402
         THEN Raise("QuotaError", <<response.status_code, response.json>>)
    ELSE Raise("RuntimeError", <<response.status_code, response.json>>)

\* _translate_errors: the status code decides the outcome
_translate_errors(response) ==
    IF response.status_code = 200
    THEN Return(response.json)
    ELSE IF response.status_code = 400
         THEN Raise("ValueError", <<response.status_code, response.json>>)
    ELSE IF response.status_code = 401
         THEN Raise("PermissionError", <<response.status_code, response.json>>)
    ELSE IF response.status_code = 402
         THEN Raise("QuotaError", <<response.status_code, response.json>>)
    ELSE IF response.status_code = 408
         THEN Raise("TimeoutError", <<response.status_code, response.json>>)
    ELSE Raise("RuntimeError", <<response.status_code, response.json>>)

-----------------------------------------------------------------------------
(* Construction *)

NoClient == [host |-> <<>>, token |-> PyNone, exists |-> FALSE]
Client(host, token) == [host |-> host, token |-> token, exists |-> TRUE]

expect_release == <<"1">>

\* variant: the host stored as given
NormalizeHostNoSlash(host) == host

\* lines 44-46: the base endpoint __init__ stores
NormalizeHost(host) ==
    IF host[Len(host)] # "/" THEN host \o <<"/">> ELSE host

\* Response.raise_for_status: client and server error statuses raise
raise_for_status(status) == status >= 400 /\ status < 600

\* get_token: [requests, outcome]
get_token(self_host, email, password, tresp) ==
    LET req == Request("POST", self_host \o <<"get_token">>, NoHeaders,
                       [email |-> email, password |-> password])
    IN  IF tresp.status_code = 200
        THEN IF "token" \in DOMAIN tresp.json
             THEN Did(<<req>>, Return(tresp.json["token"]), <<>>)
             ELSE Did(<<req>>, Raise("KeyError", <<"token">>), <<>>)
        ELSE Did(<<req>>, Raise("ValueError", <<"cannot get token">>), <<>>)

\* `token or self.get_token(email, password)`
TokenOrExchange(self_host, token, email, password, tresp) ==
    IF truthy(token)
    THEN Did(<<>>, Return(token), <<>>)
    ELSE get_token(self_host, email, password, tresp)

\* lines 56-57 of __init__: the credentials assertion and the token
TokenHandling(self_host, token, email, password, tresp) ==
    IF ~(token # PyNone \/ (email # PyNone /\ password # PyNone))
    THEN Did(<<>>, Raise("AssertionError", <<>>), <<>>)
    ELSE TokenOrExchange(self_host, token, email, password, tresp)

\* variant: an unexpected version aborts construction
VersionCheckFatal(version, rest) ==
    IF ~startswith(version, expect_release)
    THEN Did(<<>>, Raise("RuntimeError", <<"version">>), <<>>)
    ELSE rest

\* lines 51-54 of __init__: the warning for an unexpected version; rest is
\* what __init__ goes on to do
VersionCheck(version, rest) ==
    IF ~startswith(version, expect_release)
    THEN Did(rest.requests, rest.outcome, <<"warning: Please update client.">> \o rest.log)
    ELSE rest

\* __init__; a returned value is the constructed client
__init__(a, vresp, tresp) ==
    IF a.host = <<>>
    THEN Did(<<>>, Raise("IndexError", <<"string index out of range">>), <<>>)
    ELSE
    LET self_host == NormalizeHost(a.host)
        vreq == Request("GET", self_host \o <<"version">>, NoHeaders, NoJson)
    IN  IF raise_for_status(vresp.status_code)
        THEN Did(<<vreq>>, Raise("HTTPError", <<vresp.status_code>>), <<>>)
        ELSE
        LET th == VersionCheck(vresp.text,
                      TokenHandling(self_host, a.token, a.email, a.password, tresp))
        IN  Did(<<vreq>> \o th.requests,
                IF th.outcome.kind = "return"
                THEN Return(Client(self_host, th.outcome.value))
                ELSE th.outcome,
                th.log)

Hosts == { <<>>, <<"h">>, <<"h", "/">>, <<"/">> }
Tokens == { PyNone, PyStr(""), PyStr("tok") }
Emails == { PyNone, PyStr("e@x") }
Passwords == { PyNone, PyStr("pw") }
Versions == { <<"1", ".", "0">>, <<"2", ".", "1">>, <<>> }

InitArgs == [host : Hosts, token : Tokens, email : Emails, password : Passwords]
VersionResponses == [status_code : {200, 500}, text : Versions]
TokenBodies == { [token |-> PyStr("srv")], [token |-> PyNone], <<>> }
TokenResponses == [status_code : {200, 401}, json : TokenBodies]

-----------------------------------------------------------------------------
(* Requests after construction *)

ClientVersion == "2.x"

\* variant: headers without the bearer token
HeadersNoAuth(self) ==
    [Authorization |-> "", UserAgent |-> "Aleph-Alpha-Python-Client-" \o ClientVersion]

\* the request_headers property; "Bearer " + self.token needs a str
request_headers(self) ==
    [Authorization |-> "Bearer " \o self.token.v,
     UserAgent |-> "Aleph-Alpha-Python-Client-" \o ClientVersion]

request_headers_raises(self) == self.token.t # "str"

HeadersTypeError == Raise("TypeError", <<"can only concatenate str to str">>)

\* the decoded bodies a server answers an operation with: the service
\* answers with JSON objects, errors included
OpBodies == { <<>>, [optimized_prompt |-> PyStr("p")] }
OpResponses == [status_code : Statuses, json : OpBodies]

\* variant: the request is sent again when the status is not 200
SendTwiceOnError(self, method, path, json, response) ==
    IF request_headers_raises(self)
    THEN Did(<<>>, HeadersTypeError, <<>>)
    ELSE LET req == Request(method, self.host \o <<path>>, request_headers(self), json)
         IN  IF response.status_code = 200
             THEN Did(<<req>>, _translate_errors(response), <<>>)
             ELSE Did(<<req, req>>, _translate_errors(response), <<>>)

\* one request with the client's headers, then _translate_errors
Send(self, method, path, json, response) ==
    IF request_headers_raises(self)
    THEN Did(<<>>, HeadersTypeError, <<>>)
    ELSE Did(<<Request(method, self.host \o <<path>>, request_headers(self), json)>>,
             _translate_errors(response), <<>>)

available_models(self, response) ==
    Send(self, "GET", "models_available", NoJson, response)

tokenize(self, a, response) ==
    Send(self, "POST", "tokenize",
         [model |-> a.model, prompt |-> a.prompt, tokens |-> a.tokens,
          token_ids |-> a.token_ids],
         response)

detokenize(self, a, response) ==
    Send(self, "POST", "detokenize",
         [model |-> a.model, token_ids |-> a.token_ids], response)

Models == { PyStr("luminous-base"), PyNone }

TokenizeArgs ==
    [model : Models, prompt : {PyStr(""), PyStr("hello")},
     tokens : {PyBool(TRUE), PyBool(FALSE)}, token_ids : {PyBool(TRUE)}]

DetokenizeArgs ==
    [model : Models,
     token_ids : {PyList(<<>>), PyList(<<PyInt(1), PyInt(MaxInt)>>)}]

-----------------------------------------------------------------------------
(* complete *)

\* the calls that give up to two of the settings (parameter, value) and leave
\* the other parameters at their defaults
Overrides(defaults, settings) ==
    { [[defaults EXCEPT ![p[1]] = p[2]] EXCEPT ![q[1]] = q[2]] :
        p \in settings, q \in settings }

Ints == { PyInt(i) : i \in -1 .. MaxInt }
Floats == { PyFloat(h) : h \in -1 .. MaxInt + 1 }

\* the defaults of complete's signature, with a model name
CompleteDefaults ==
    [model |-> PyStr("luminous-base"),
     prompt |-> PyStr(""),
     hosting |-> PyStr("cloud"),
     maximum_tokens |-> PyInt(64),
     temperature |-> Float0,
     top_k |-> PyInt(0),
     top_p |-> Float0,
     presence_penalty |-> Float0,
     frequency_penalty |-> Float0,
     repetition_penalties_include_prompt |-> PyBool(FALSE),
     use_multiplicative_presence_penalty |-> PyBool(FALSE),
     best_of |-> PyNone,
     n |-> PyInt(1),
     logit_bias |-> PyNone,
     log_probs |-> PyNone,
     stop_sequences |-> PyNone,
     tokens |-> PyBool(FALSE),
     disable_optimizations |-> PyBool(FALSE)]

FloatParams == {"temperature", "top_p", "presence_penalty", "frequency_penalty"}
BoolParams == {"repetition_penalties_include_prompt", "use_multiplicative_presence_penalty",
               "tokens", "disable_optimizations"}

\* the values a caller passes for a parameter of complete
CompleteValues(f) ==
    IF f = "model" THEN {PyNone, PyInt(1)}
    ELSE IF f = "prompt" THEN {PyStr("hello"), PyList(<<>>), PyNone}
    ELSE IF f = "hosting" THEN {PyNone}
    ELSE IF f = "maximum_tokens"
         THEN Ints \cup {PyNone, PyFloat(2), PyBool(TRUE), PyStr("1")}
    ELSE IF f \in FloatParams
         THEN Ints \cup Floats \cup {PyNone, PyBool(TRUE), PyStr("1")}
    ELSE IF f = "top_k" THEN Ints \cup {PyNone, PyFloat(2)}
    ELSE IF f \in BoolParams THEN {PyNone, PyBool(TRUE), PyInt(1)}
    ELSE IF f = "best_of" THEN Ints \cup {PyFloat(2), PyBool(TRUE)}
    ELSE IF f = "n" THEN Ints \cup {PyNone, PyFloat(2), PyBool(TRUE)}
    ELSE IF f = "logit_bias"
         THEN {PyDict(<<>>), PyDict(<< <<PyInt(1), PyFloat(1)>> >>),
               PyDict(<< <<PyInt(1), PyInt(2)>> >>),
               PyDict(<< <<PyInt(1), PyFloat(1)>>, <<PyStr("a"), PyFloat(1)>> >>),
               PyList(<<>>)}
    ELSE IF f = "log_probs" THEN {PyInt(1), PyStr("1")}
    ELSE {PyList(<<>>), PyList(<<PyStr("\n")>>), PyList(<<PyStr("\n"), PyInt(1)>>),
          PyStr("\n")}

CompleteSettings ==
    UNION { { <<f, x>> : x \in CompleteValues(f) } : f \in DOMAIN CompleteDefaults }

\* a call of complete: the defaults with up to two parameters given
CompleteArgs == Overrides(CompleteDefaults, CompleteSettings)

\* variant: _to_serializable_prompt without the length check
ToSerializablePromptAnyLength(prompt, at_least_one_token) ==
    IF isinstance(prompt, "str")
    THEN Return(prompt)
    ELSE IF isinstance(prompt, "list") /\ prompt.v = <<>>
         THEN Return(PyList(<<>>))
    ELSE Raise("ValueError", <<"Invalid prompt. Prompt must either be a string, or a list of valid multimodal propmt items.">>)

\* _to_serializable_prompt: the outcome (the serializable prompt, or the
\* error); of the lists, the empty one, which holds no item to convert
_to_serializable_prompt(prompt, at_least_one_token) ==
    IF isinstance(prompt, "str")
    THEN IF at_least_one_token /\ Len(prompt.v) = 0
         THEN Raise("ValueError", <<"prompt must contain at least one character">>)
         ELSE Return(prompt)
    ELSE IF isinstance(prompt, "list") /\ prompt.v = <<>>
         THEN Return(PyList(<<>>))
    ELSE Raise("ValueError", <<"Invalid prompt. Prompt must either be a string, or a list of valid multimodal propmt items.">>)

\* variant: no coercion
CoerceKeepsInt(x) == x

\* lines 222-223 (and 228-229, 232-233, 236-237): an int becomes a float
Coerce(x) == IF isinstance(x, "int") THEN float(x) ELSE x

NoneOr(x, cls) == x = PyNone \/ isinstance(x, cls)

\* lines 261-265: the first item of logit_bias that fails, "" when none does
RECURSIVE LogitBiasItems(_)
LogitBiasItems(items) ==
    IF items = <<>> THEN ""
    ELSE IF ~isinstance(Head(items)[1], "int")
         THEN "a key in the logit_bias dict must be an integer"
    ELSE IF ~isinstance(Head(items)[2], "float")
         THEN "a value in the logit_bias dict must be a float"
    ELSE LogitBiasItems(Tail(items))

\* lines 271-275
RECURSIVE StopSequenceItems(_)
StopSequenceItems(items) ==
    IF items = <<>> THEN ""
    ELSE IF ~isinstance(Head(items), "str")
         THEN "each item in the stop_sequences list must be a string"
    ELSE StopSequenceItems(Tail(items))

\* variant: the best_of checks without the equality check
BestOfOnlyLess(best_of, n) ==
    IF best_of = PyNone THEN Return("")
    ELSE IF n = PyNone
         THEN Raise("TypeError", <<"'<' not supported between instances of 'int' and 'NoneType'">>)
    ELSE IF best_of.v < n.v
         THEN Raise("ValueError", <<"best_of needs to be bigger than n. The model cannot return more completions (n) than were computed (best_of).">>)
    ELSE Return("")

\* lines 300-308: the best_of checks; Return("") when they pass
BestOf(best_of, n) ==
    IF best_of = PyNone THEN Return("")
    ELSE IF n # PyNone /\ best_of.v = n.v
         THEN Raise("ValueError", <<"With best_of equal to n no best completions are choses because only n are computed.">>)
    ELSE IF n = PyNone
         THEN Raise("TypeError", <<"'<' not supported between instances of 'int' and 'NoneType'">>)
    ELSE IF best_of.v < n.v
         THEN Raise("ValueError", <<"best_of needs to be bigger than n. The model cannot return more completions (n) than were computed (best_of).">>)
    ELSE Return("")

ValueError(msg) == Raise("ValueError", <<msg>>)

\* variant: only the lower end of the range is checked
BelowUnitRange(x) == x.v < Float0.v

\* lines 291 and 294: x < 0.0 or x > 1.0
OutsideUnitRange(x) == x.v < Float0.v \/ x.v > Float1.v

\* lines 214-329 of complete: the error raised, or the payload returned
CompletePayload(a) ==
    LET prompt == _to_serializable_prompt(a.prompt, FALSE)
        temperature == Coerce(a.temperature)
        top_p == Coerce(a.top_p)
        presence_penalty == Coerce(a.presence_penalty)
        frequency_penalty == Coerce(a.frequency_penalty)
        best_of == BestOf(a.best_of, a.n)
    IN
    IF ~isinstance(a.model, "str") THEN ValueError("model must be a string")
    ELSE IF prompt.kind = "raise" THEN prompt
    ELSE IF ~NoneOr(a.maximum_tokens, "int")
         THEN ValueError("maximum_tokens must be an int or None")
    ELSE IF ~NoneOr(temperature, "float")
         THEN ValueError("temperature must be a float or None")
    ELSE IF ~NoneOr(a.top_k, "int")
         THEN ValueError("top_k must be a positive int or None")
    ELSE IF ~NoneOr(top_p, "float")
         THEN ValueError("top_p must be a float or None")
    ELSE IF ~NoneOr(presence_penalty, "float")
         THEN ValueError("presence_penalty must be a float or None")
    ELSE IF ~NoneOr(frequency_penalty, "float")
         THEN ValueError("frequency_penalty must be a float or None")
    ELSE IF ~NoneOr(a.repetition_penalties_include_prompt, "bool")
         THEN ValueError("repetition_penalties_include_prompt must be a bool or None")
    ELSE IF ~NoneOr(a.use_multiplicative_presence_penalty, "bool")
         THEN ValueError("use_multiplicative_presence_penalty must be a bool or None")
    ELSE IF ~NoneOr(a.best_of, "int")
         THEN ValueError("best_of must be an int or None")
    ELSE IF ~NoneOr(a.n, "int")
         THEN ValueError("n must be an int or None")
    ELSE IF ~NoneOr(a.logit_bias, "dict")
         THEN ValueError("logit_bias must be a dict or None")
    ELSE IF a.logit_bias # PyNone /\ LogitBiasItems(a.logit_bias.v) # ""
         THEN ValueError(LogitBiasItems(a.logit_bias.v))
    ELSE IF ~NoneOr(a.log_probs, "int")
         THEN ValueError("log_probs must be an int or None")
    ELSE IF ~NoneOr(a.stop_sequences, "list")
         THEN ValueError("stop_sequences must be an list of strings or None")
    ELSE IF a.stop_sequences # PyNone /\ StopSequenceItems(a.stop_sequences.v) # ""
         THEN ValueError(StopSequenceItems(a.stop_sequences.v))
    ELSE IF ~NoneOr(a.tokens, "bool")
         THEN ValueError("tokens must be a bool or None")
    ELSE IF ~NoneOr(a.disable_optimizations, "bool")
         THEN ValueError("disable_optimizations must be a bool or None")
    ELSE IF a.maximum_tokens # PyNone /\ a.maximum_tokens.v <= 0
         THEN ValueError("maximum_tokens must be a positive integer")
    ELSE IF a.top_k # PyNone /\ a.top_k.v < 0
         THEN ValueError("top_k must be a positive integer, 0 or None")
    ELSE IF temperature # PyNone /\ OutsideUnitRange(temperature)
         THEN ValueError("temperature must be a float between 0.0 and 1.0")
    ELSE IF top_p # PyNone /\ OutsideUnitRange(top_p)
         THEN ValueError("top_p must be a float between 0.0 and 1.0")
    ELSE IF a.n # PyNone /\ a.n.v <= 0
         THEN ValueError("top_k must be a positive integer")
    ELSE IF best_of.kind = "raise" THEN best_of
    ELSE Return([a EXCEPT !.prompt = prompt.value,
                          !.temperature = temperature,
                          !.top_p = top_p,
                          !.presence_penalty = presence_penalty,
                          !.frequency_penalty = frequency_penalty])

\* lines 338-342: the notice printed for an optimized prompt
OptimizedNotice(did) ==
    IF /\ did.outcome.kind = "return"
       /\ "optimized_prompt" \in DOMAIN did.outcome.value
       /\ did.outcome.value["optimized_prompt"] # PyNone
    THEN Did(did.requests, did.outcome,
             did.log \o <<"We optimized your prompt before sending it to the model.">>)
    ELSE did

\* variant: complete posts before it looks at the validation's outcome
CompletePostsFirst(self, a, response) ==
    LET payload == CompletePayload(a)
        sent == Send(self, "POST", "complete",
                     IF payload.kind = "raise" THEN NoJson ELSE payload.value, response)
    IN  IF payload.kind = "raise"
        THEN Did(sent.requests, payload, <<>>)
        ELSE OptimizedNotice(sent)

\* complete: validation, then one post and the translation of its response
complete(self, a, response) ==
    LET payload == CompletePayload(a)
    IN  IF payload.kind = "raise"
        THEN Did(<<>>, payload, <<>>)
        ELSE OptimizedNotice(Send(self, "POST", "complete", payload.value, response))

-----------------------------------------------------------------------------
(* evaluate *)

EvaluateArgs ==
    [model : Models,
     completion_expected : {PyStr("world"), PyStr(""), PyNone, PyInt(1)},
     hosting : {PyStr("cloud"), PyNone},
     prompt : {PyStr(""), PyStr("hello"), PyList(<<>>), PyNone}]

\* lines 393-409 of evaluate: the error raised, or the payload returned
EvaluatePayload(a) ==
    LET serializable_prompt == _to_serializable_prompt(a.prompt, FALSE)
    IN
    IF ~isinstance(a.model, "str") THEN ValueError("model must be a string")
    ELSE IF serializable_prompt.kind = "raise" THEN serializable_prompt
    ELSE IF ~isinstance(a.completion_expected, "str")
         THEN ValueError("completion_expected must be a string")
    ELSE IF Len(a.completion_expected.v) = 0
         THEN ValueError("completion_expected cannot be empty")
    ELSE Return([model |-> a.model,
                 prompt |-> serializable_prompt.value,
                 hosting |-> a.hosting,
                 completion_expected |-> a.completion_expected])

evaluate(self, a, response) ==
    LET payload == EvaluatePayload(a)
    IN  IF payload.kind = "raise"
        THEN Did(<<>>, payload, <<>>)
        ELSE Send(self, "POST", "evaluate", payload.value, response)

-----------------------------------------------------------------------------
(* qa *)

Document(text) == [t |-> "Document", v |-> text]

\* Document._to_serializable_document, called on an item of documents
_to_serializable_document(document) ==
    IF document.t = "Document"
    THEN Return(PyDict(<< <<PyStr("text"), PyStr(document.v)>> >>))
    ELSE Raise("AttributeError", <<"_to_serializable_document">>)

\* line 476: the list of the serialized documents, or the first error
RECURSIVE SerializeDocuments(_)
SerializeDocuments(items) ==
    IF items = <<>> THEN Return(<<>>)
    ELSE LET first == _to_serializable_document(Head(items))
             others == SerializeDocuments(Tail(items))
         IN  IF first.kind = "raise" THEN first
             ELSE IF others.kind = "raise" THEN others
             ELSE Return(<<first.value>> \o others.value)

QaDefaults ==
    [model |-> PyStr("luminous-base"),
     query |-> PyStr("who?"),
     documents |-> PyList(<<Document("a")>>),
     maximum_tokens |-> PyInt(64),
     max_chunk_size |-> PyInt(175),
     disable_optimizations |-> PyBool(FALSE),
     max_answers |-> PyInt(0),
     min_score |-> Float0]

\* the values a caller passes for a parameter of qa
QaValues(f) ==
    IF f = "model" THEN {PyNone}
    ELSE IF f = "query" THEN {PyStr(""), PyNone}
    ELSE IF f = "documents"
         THEN {PyList(<<>>), PyList(<<Document("a"), Document("b")>>),
               PyList(<<Document("a"), PyStr("b")>>), PyNone}
    ELSE IF f \in {"maximum_tokens", "max_chunk_size", "max_answers"}
         THEN Ints \cup {PyNone, PyFloat(2), PyBool(TRUE)}
    ELSE IF f = "disable_optimizations" THEN {PyBool(TRUE), PyNone, PyInt(1)}
    ELSE Ints \cup Floats \cup {PyNone}

QaSettings ==
    UNION { { <<f, x>> : x \in QaValues(f) } : f \in DOMAIN QaDefaults }

QaArgs == Overrides(QaDefaults, QaSettings)

\* lines 464-506 of qa: the error raised, or the payload returned
QaPayload(a) ==
    LET documents == SerializeDocuments(a.documents.v)
    IN
    IF ~isinstance(a.model, "str") THEN ValueError("model must be a string")
    ELSE IF ~isinstance(a.query, "str") THEN ValueError("query must be a string")
    ELSE IF ~isinstance(a.documents, "list")
         THEN ValueError("documents must be a list where all elements are of the type Document")
    ELSE IF documents.kind = "raise" THEN documents
    ELSE IF ~isinstance(a.maximum_tokens, "int")
         THEN ValueError("maximum_tokens must be an int")
    ELSE IF ~isinstance(a.max_chunk_size, "int")
         THEN ValueError("max_chunk_size must be an int")
    ELSE IF ~isinstance(a.max_answers, "int")
         THEN ValueError("max_answers must be an int")
    ELSE IF ~isinstance(a.min_score, "float")
         THEN ValueError("min_score must be a float")
    ELSE IF ~isinstance(a.disable_optimizations, "bool")
         THEN ValueError("disable_optimizations must be a bool")
    ELSE IF a.maximum_tokens.v <= 0
         THEN ValueError("maximum_tokens must be a positive integer")
    ELSE Return([model |-> a.model,
                 query |-> a.query,
                 documents |-> PyList(documents.value),
                 maximum_tokens |-> a.maximum_tokens,
                 max_answers |-> a.max_answers,
                 min_score |-> a.min_score,
                 max_chunk_size |-> a.max_chunk_size,
                 disable_optimizations |-> a.disable_optimizations])

qa(self, a, response) ==
    LET payload == QaPayload(a)
    IN  IF payload.kind = "raise"
        THEN Did(<<>>, payload, <<>>)
        ELSE Send(self, "POST", "qa", payload.value, response)

-----------------------------------------------------------------------------
(* embed and _explain *)

\* EmbeddingRequest.render_as_body(model, hosting): the prompt must hold at
\* least one token
EmbeddingRequest_render_as_body(request, model, hosting) ==
    LET prompt == _to_serializable_prompt(request.prompt, TRUE)
    IN  IF prompt.kind = "raise" THEN prompt
        ELSE Return([model |-> model, hosting |-> hosting,
                     prompt |-> prompt.value, layers |-> request.layers,
                     pooling |-> request.pooling])

\* EmbeddingResponse.from_json
EmbeddingResponse_from_json(json) == [t |-> "EmbeddingResponse", v |-> json]

EmbedArgs ==
    [model : Models,
     hosting : {PyNone, PyStr("cloud")},
     request : [prompt : {PyStr(""), PyStr("hello"), PyList(<<>>)},
                layers : {PyList(<<PyInt(-1)>>)},
                pooling : {PyList(<<PyStr("mean")>>), PyList(<<PyStr("max"), PyStr("abs_max")>>)}]]

embed(self, a, response) ==
    LET body == EmbeddingRequest_render_as_body(a.request, a.model, a.hosting)
    IN  IF body.kind = "raise"
        THEN Did(<<>>, body, <<>>)
        ELSE LET sent == Send(self, "POST", "embed", body.value, response)
             IN  IF sent.outcome.kind = "return"
                 THEN Did(sent.requests,
                          Return(EmbeddingResponse_from_json(sent.outcome.value)),
                          sent.log)
                 ELSE sent

\* ExplanationRequest.render_as_body(model, hosting)
ExplanationRequest_render_as_body(request, model, hosting) ==
    [model |-> model, hosting |-> hosting,
     prompt |-> request.prompt, target |-> request.target]

ExplainArgs ==
    [model : Models,
     hosting : {PyNone, PyStr("cloud")},
     request : [prompt : {PyStr("hello")}, target : {PyStr(""), PyStr("world")}]]

_explain(self, a, response) ==
    Send(self, "POST", "explain",
         ExplanationRequest_render_as_body(a.request, a.model, a.hosting), response)

-----------------------------------------------------------------------------
(* Calls with keyword arguments *)

\* the parameters of a method of the client, those without a default, and
\* the defaults of the others
Signature(op) ==
    IF op = "tokenize"
    THEN [params |-> {"model", "prompt", "tokens", "token_ids"},
          required |-> {"model", "prompt"},
          defaults |-> [tokens |-> PyBool(TRUE), token_ids |-> PyBool(TRUE)]]
    ELSE IF op = "detokenize"
    THEN [params |-> {"model", "token_ids"},
          required |-> {"model", "token_ids"},
          defaults |-> <<>>]
    ELSE IF op = "complete"
    THEN [params |-> DOMAIN CompleteDefaults,
          required |-> {"model"},
          defaults |-> CompleteDefaults]
    ELSE IF op = "embed"
    THEN [params |-> {"model", "request", "hosting"},
          required |-> {"model", "request"},
          defaults |-> [hosting |-> PyNone]]
    ELSE IF op = "evaluate"
    THEN [params |-> {"model", "completion_expected", "hosting", "prompt"},
          required |-> {"model", "completion_expected"},
          defaults |-> [hosting |-> PyStr("cloud"), prompt |-> PyStr("")]]
    ELSE [params |-> DOMAIN QaDefaults,
          required |-> {"model", "query", "documents"},
          defaults |-> QaDefaults]

\* the binding of the keyword arguments of a call to the parameters: the
\* arguments the method works with, or the TypeError of the call
Bind(sig, kwargs) ==
    IF ~(DOMAIN kwargs \subseteq sig.params)
    THEN Raise("TypeError", <<"got an unexpected keyword argument">>)
    ELSE IF ~(sig.required \subseteq DOMAIN kwargs)
    THEN Raise("TypeError", <<"missing a required argument">>)
    ELSE Return([k \in sig.params |->
                    IF k \in DOMAIN kwargs THEN kwargs[k] ELSE sig.defaults[k]])

\* client.<op>(**kwargs)
ClientCall(self, op, kwargs, response) ==
    LET bound == Bind(Signature(op), kwargs)
    IN  IF bound.kind = "raise" THEN Did(<<>>, bound, <<>>)
        ELSE IF op = "tokenize" THEN tokenize(self, bound.value, response)
        ELSE IF op = "detokenize" THEN detokenize(self, bound.value, response)
        ELSE IF op = "complete" THEN complete(self, bound.value, response)
        ELSE IF op = "embed" THEN embed(self, bound.value, response)
        ELSE IF op = "evaluate" THEN evaluate(self, bound.value, response)
        ELSE qa(self, bound.value, response)

\* the calls of evaluate: with its four parameters, and with a checkpoint too
EvaluateCalls ==
    EvaluateArgs \cup { a @@ [checkpoint |-> PyStr("ckpt")] : a \in EvaluateArgs }

-----------------------------------------------------------------------------
(* AlephAlphaModel *)

\* AlephAlphaModel(client, model_name, hosting)
AlephAlphaModels ==
    [model_name : {PyStr("luminous-base")}, hosting : {PyStr("cloud"), PyNone}]

\* <Response class>.from_json
from_json(cls, json) == [t |-> cls, v |-> json]

\* the method's result, made a response object
Responded(cls, did) ==
    IF did.outcome.kind = "return"
    THEN Did(did.requests, Return(from_json(cls, did.outcome.value)), did.log)
    ELSE did

\* one field of a record left out
Without(a, fields) == [k \in DOMAIN a \ fields |-> a[k]]

\* request._asdict() of the request classes
CompletionRequests ==
    { Without([CompleteDefaults EXCEPT ![p[1]] = p[2]], {"model", "hosting"}) :
        p \in CompleteSettings \cup {<<"n", PyInt(1)>>} }
TokenizationRequests == { Without(a, {"model"}) : a \in TokenizeArgs }
DetokenizationRequests == { Without(a, {"model"}) : a \in DetokenizeArgs }
EmbeddingRequests == { a.request : a \in EmbedArgs }
EvaluationRequests == { Without(a, {"model", "hosting"}) : a \in EvaluateArgs }
QaRequests ==
    { Without([QaDefaults EXCEPT ![p[1]] = p[2]], {"model"}) :
        p \in QaSettings \cup {<<"min_score", Float0>>} }

model_complete(m, self, request, response) ==
    Responded("CompletionResponse",
        ClientCall(self, "complete",
                   [model |-> m.model_name, hosting |-> m.hosting] @@ request, response))

model_tokenize(m, self, request, response) ==
    Responded("TokenizationResponse",
        ClientCall(self, "tokenize", [model |-> m.model_name] @@ request, response))

model_detokenize(m, self, request, response) ==
    Responded("DetokenizationResponse",
        ClientCall(self, "detokenize", [model |-> m.model_name] @@ request, response))

model_embed(m, self, request, response) ==
    Responded("EmbeddingResponse",
        ClientCall(self, "embed",
                   [model |-> m.model_name, hosting |-> m.hosting] @@ request, response))

model_evaluate(m, self, request, response) ==
    Responded("EvaluationResponse",
        ClientCall(self, "evaluate",
                   [model |-> m.model_name, hosting |-> m.hosting] @@ request, response))

model_qa(m, self, request, response) ==
    Responded("QaResponse",
        ClientCall(self, "qa",
                   [model |-> m.model_name, hosting |-> m.hosting] @@ request, response))

-----------------------------------------------------------------------------
(* The state machine *)

Idle == [op |-> "idle", args |-> <<>>, requests |-> <<>>, responses |-> <<>>,
         outcome |-> [kind |-> "none"], log |-> <<>>]

\* an invocation: its arguments, the requests it issued with the responses
\* they got (of those the server had ready), and its outcome
Invoked(op, args, did, responses) ==
    [op |-> op, args |-> args, requests |-> did.requests,
     responses |-> [i \in 1 .. (IF Len(did.requests) < Len(responses)
                                 THEN Len(did.requests) ELSE Len(responses))
                      |-> responses[i]],
     outcome |-> did.outcome, log |-> did.log]

Init ==
    /\ client = NoClient
    /\ last = Idle

\* AlephAlphaClient(host, token, email, password)
Construct ==
    /\ last = Idle
    /\ ~client.exists
    /\ \E a \in InitArgs, vresp \in VersionResponses, tresp \in TokenResponses :
          LET did == __init__(a, vresp, tresp)
          IN  /\ last' = Invoked("init", a, did, <<vresp, tresp>>)
              /\ client' = IF did.outcome.kind = "return"
                           THEN did.outcome.value
                           ELSE NoClient

AvailableModels ==
    /\ last = Idle
    /\ client.exists
    /\ \E response \in OpResponses :
          last' = Invoked("available_models", <<>>, available_models(client, response), <<response>>)
    /\ UNCHANGED client

Tokenize ==
    /\ last = Idle
    /\ client.exists
    /\ \E a \in TokenizeArgs, response \in OpResponses :
          last' = Invoked("tokenize", a, tokenize(client, a, response), <<response>>)
    /\ UNCHANGED client

Detokenize ==
    /\ last = Idle
    /\ client.exists
    /\ \E a \in DetokenizeArgs, response \in OpResponses :
          last' = Invoked("detokenize", a, detokenize(client, a, response), <<response>>)
    /\ UNCHANGED client

Complete ==
    /\ last = Idle
    /\ client.exists
    /\ \E a \in CompleteArgs, response \in OpResponses :
          last' = Invoked("complete", a, complete(client, a, response), <<response>>)
    /\ UNCHANGED client

Embed ==
    /\ last = Idle
    /\ client.exists
    /\ \E a \in EmbedArgs, response \in OpResponses :
          last' = Invoked("embed", a, embed(client, a, response), <<response>>)
    /\ UNCHANGED client

Evaluate ==
    /\ last = Idle
    /\ client.exists
    /\ \E a \in EvaluateCalls, response \in OpResponses :
          last' = Invoked("evaluate", a, ClientCall(client, "evaluate", a, response),
                          <<response>>)
    /\ UNCHANGED client

Qa ==
    /\ last = Idle
    /\ client.exists
    /\ \E a \in QaArgs, response \in OpResponses :
          last' = Invoked("qa", a, qa(client, a, response), <<response>>)
    /\ UNCHANGED client

Explain ==
    /\ last = Idle
    /\ client.exists
    /\ \E a \in ExplainArgs, response \in OpResponses :
          last' = Invoked("explain", a, _explain(client, a, response), <<response>>)
    /\ UNCHANGED client

\* AlephAlphaModel.complete(request)
ModelComplete ==
    /\ last = Idle
    /\ client.exists
    /\ \E m \in AlephAlphaModels, request \in CompletionRequests, response \in OpResponses :
          last' = Invoked("model.complete", [model |-> m, request |-> request],
                          model_complete(m, client, request, response), <<response>>)
    /\ UNCHANGED client

\* AlephAlphaModel.tokenize(request)
ModelTokenize ==
    /\ last = Idle
    /\ client.exists
    /\ \E m \in AlephAlphaModels, request \in TokenizationRequests, response \in OpResponses :
          last' = Invoked("model.tokenize", [model |-> m, request |-> request],
                          model_tokenize(m, client, request, response), <<response>>)
    /\ UNCHANGED client

\* AlephAlphaModel.detokenize(request)
ModelDetokenize ==
    /\ last = Idle
    /\ client.exists
    /\ \E m \in AlephAlphaModels, request \in DetokenizationRequests, response \in OpResponses :
          last' = Invoked("model.detokenize", [model |-> m, request |-> request],
                          model_detokenize(m, client, request, response), <<response>>)
    /\ UNCHANGED client

\* AlephAlphaModel.embed(request)
ModelEmbed ==
    /\ last = Idle
    /\ client.exists
    /\ \E m \in AlephAlphaModels, request \in EmbeddingRequests, response \in OpResponses :
          last' = Invoked("model.embed", [model |-> m, request |-> request],
                          model_embed(m, client, request, response), <<response>>)
    /\ UNCHANGED client

\* AlephAlphaModel.evaluate(request)
ModelEvaluate ==
    /\ last = Idle
    /\ client.exists
    /\ \E m \in AlephAlphaModels, request \in EvaluationRequests, response \in OpResponses :
          last' = Invoked("model.evaluate", [model |-> m, request |-> request],
                          model_evaluate(m, client, request, response), <<response>>)
    /\ UNCHANGED client

\* AlephAlphaModel.qa(request)
ModelQa ==
    /\ last = Idle
    /\ client.exists
    /\ \E m \in AlephAlphaModels, request \in QaRequests, response \in OpResponses :
          last' = Invoked("model.qa", [model |-> m, request |-> request],
                          model_qa(m, client, request, response), <<response>>)
    /\ UNCHANGED client

\* the caller takes the result or the exception and goes on
ReturnToCaller ==
    /\ last # Idle
    /\ last' = Idle
    /\ UNCHANGED client

Next ==
    \/ Construct
    \/ AvailableModels
    \/ Tokenize
    \/ Detokenize
    \/ Complete
    \/ Embed
    \/ Evaluate
    \/ Qa
    \/ Explain
    \/ ModelComplete
    \/ ModelTokenize
    \/ ModelDetokenize
    \/ ModelEmbed
    \/ ModelEvaluate
    \/ ModelQa
    \/ ReturnToCaller

Spec == Init /\ [][Next]_vars

-----------------------------------------------------------------------------
(* Properties *)

Operations == {"available_models", "tokenize", "detokenize", "complete",
               "embed", "evaluate", "qa", "explain"}

\* an error raised by a handler's own checks: its one argument is the message
ValidationError(outcome) ==
    /\ outcome.kind = "raise"
    /\ outcome.exc \in {"ValueError", "TypeError", "AttributeError"}
    /\ Len(outcome.args) = 1

\* the error class the status table gives a status code other than 200
ErrorOfStatus(status) ==
    IF status = 400 THEN "ValueError"
    ELSE IF status = 401 THEN "PermissionError"
    ELSE IF status = 402 THEN "QuotaError"
    ELSE IF status = 408 THEN "TimeoutError"
    ELSE "RuntimeError"

\* C1: the response to an operation's request is translated by its status
\* code: 200 returns the decoded body unchanged (embed wraps it in an
\* EmbeddingResponse), 400 raises ValueError, 401 PermissionError, 402
\* QuotaError, 408 TimeoutError and every other status RuntimeError, and the
\* raised error carries the status code and the decoded body.
C1_StatusTranslation ==
    (last.op \in Operations /\ last.responses # <<>>) =>
        LET response == last.responses[1]
        IN  IF response.status_code = 200
            THEN /\ last.outcome.kind = "return"
                 /\ last.outcome.value =
                        IF last.op = "embed"
                        THEN EmbeddingResponse_from_json(response.json)
                        ELSE response.json
            ELSE /\ last.outcome.kind = "raise"
                 /\ last.outcome.exc = ErrorOfStatus(response.status_code)
                 /\ last.outcome.args = <<response.status_code, response.json>>

C1_Witness ==
    /\ last.op = "qa"
    /\ last.responses # <<>>
    /\ last.responses[1].status_code = 408
    /\ last.outcome.kind = "raise"
    /\ last.outcome.exc = "TimeoutError"

\* C2: a call of complete, evaluate or qa that ends with a validation error
\* has issued no HTTP request.
C2_ValidationBeforeRequest ==
    (last.op \in {"complete", "evaluate", "qa"} /\ ValidationError(last.outcome)) =>
        last.requests = <<>>

C2_Witness ==
    /\ last.op = "complete"
    /\ last.args.temperature = PyFloat(MaxInt + 1)
    /\ last.outcome = ValueError("temperature must be a float between 0.0 and 1.0")
    /\ last.requests = <<>>

\* C3: a complete call whose best_of is given and is equal to or less than n
\* raises a ValueError with a message and issues no request; a complete
\* request carries a best_of only when it is greater than its n.
C3_BestOfExceedsN ==
    last.op = "complete" =>
        /\ (/\ last.args.best_of # PyNone
            /\ isinstance(last.args.best_of, "int")
            /\ isinstance(last.args.n, "int")
            /\ last.args.best_of.v <= last.args.n.v) =>
                /\ last.outcome.kind = "raise"
                /\ last.outcome.exc = "ValueError"
                /\ Len(last.outcome.args) = 1
                /\ last.requests = <<>>
        /\ \A i \in 1 .. Len(last.requests) :
              last.requests[i].json.best_of # PyNone =>
                  /\ isinstance(last.requests[i].json.best_of, "int")
                  /\ isinstance(last.requests[i].json.n, "int")
                  /\ last.requests[i].json.best_of.v > last.requests[i].json.n.v

C3_Witness ==
    /\ last.op = "complete"
    /\ last.args.best_of = PyInt(MaxInt)
    /\ last.args.n = PyInt(MaxInt)
    /\ last.outcome = ValueError("With best_of equal to n no best completions are choses because only n are computed.")
    /\ last.requests = <<>>

\* C4: an operation call issues at most one HTTP request whatever the status
\* code; a status other than 200 is raised to the caller by that same call,
\* which has issued exactly one request.
C4_NoRetry ==
    last.op \in Operations =>
        /\ Len(last.requests) <= 1
        /\ (last.responses # <<>> /\ last.responses[1].status_code # 200) =>
              /\ Len(last.requests) = 1
              /\ last.outcome.kind = "raise"
              /\ last.outcome.args[1] = last.responses[1].status_code

C4_Witness ==
    /\ last.op = "tokenize"
    /\ Len(last.requests) = 1
    /\ last.responses[1].status_code = 500
    /\ last.outcome.kind = "raise"
    /\ last.outcome.exc = "RuntimeError"

\* the requests of the last invocation that go to the given path
RequestsTo(path) ==
    { i \in 1 .. Len(last.requests) :
        last.requests[i].url[Len(last.requests[i].url)] = path }

\* construction got past the version check and the credentials assertion
ReachedToken ==
    /\ last.op = "init"
    /\ last.responses # <<>>
    /\ last.outcome.kind = "raise" =>
          last.outcome.exc \notin {"HTTPError", "AssertionError"}

\* C5: a token given to the constructor means no get_token request; without
\* one, construction issues exactly one get_token request, and an answer to
\* it other than 200 aborts construction, leaving no client; no operation
\* call issues a get_token request.
C5_TokenExchangeOnlyWithoutToken ==
    /\ last.op = "init" =>
          /\ last.args.token # PyNone => RequestsTo("get_token") = {}
          /\ (last.args.token = PyNone /\ ReachedToken) =>
                Cardinality(RequestsTo("get_token")) = 1
          /\ (Len(last.responses) = 2 /\ last.responses[2].status_code # 200) =>
                (last.outcome.kind = "raise" /\ ~client.exists)
    /\ last.op \in Operations => RequestsTo("get_token") = {}

\* what C5 leaves standing: what is stored at construction stays as it is,
\* and only construction talks to get_token
C5_ConfigurationImmutable ==
    [][client.exists => client' = client]_vars

\* C6: construction asks for the version before anything else, and a version
\* that does not start with the expected release only adds a warning: the
\* requests and the outcome are those of the same construction with a
\* matching version.
C6_VersionMismatchOnlyWarns ==
    (last.op = "init" /\ last.requests # <<>>) =>
        /\ last.requests[1].method = "GET"
        /\ RequestsTo("version") = {1}
        /\ last.responses[1].status_code = 200 =>
              \A tresp \in TokenResponses :
                  (Len(last.responses) = 2 => tresp = last.responses[2]) =>
                      LET matching == __init__(last.args,
                                               [status_code |-> 200, text |-> <<"1", ".", "0">>],
                                               tresp)
                          warned == ~startswith(last.responses[1].text, expect_release)
                      IN  /\ last.requests = matching.requests
                          /\ last.outcome = matching.outcome
                          /\ matching.log = <<>>
                          /\ last.log = IF warned
                                        THEN <<"warning: Please update client.">>
                                        ELSE <<>>
                          /\ (warned /\ truthy(last.args.token)) =>
                                (last.outcome.kind = "return" /\ client.exists)

C6_Witness ==
    /\ last.op = "init"
    /\ Len(last.responses) = 2
    /\ last.responses[1].text = <<"2", ".", "1">>
    /\ last.log = <<"warning: Please update client.">>
    /\ last.outcome.kind = "return"
    /\ client.exists
    /\ client.token = PyStr("srv")

\* the base endpoint the constructor is to store for a host
WithTrailingSlash(host) ==
    IF host # <<>> /\ host[Len(host)] = "/" THEN host ELSE host \o <<"/">>

PathOf(op) ==
    IF op = "available_models" THEN "models_available" ELSE op

\* C7: the stored base endpoint ends with "/": the host given, with one "/"
\* appended unless it ends with one; and every request, those of
\* construction included, goes to that base followed by the path of what is
\* asked.
C7_BaseUrlNormalized ==
    /\ client.exists => client.host[Len(client.host)] = "/"
    /\ last.op = "init" =>
          /\ last.outcome.kind = "return" =>
                client.host = WithTrailingSlash(last.args.host)
          /\ \A i \in 1 .. Len(last.requests) :
                last.requests[i].url =
                    WithTrailingSlash(last.args.host)
                        \o <<IF i = 1 THEN "version" ELSE "get_token">>
    /\ last.op \in Operations =>
          \A i \in 1 .. Len(last.requests) :
              last.requests[i].url = client.host \o <<PathOf(last.op)>>

C7_Witness ==
    /\ last.op = "init"
    /\ last.args.host = <<"h">>
    /\ client.exists
    /\ client.host = <<"h", "/">>
    /\ Len(last.requests) = 2
    /\ last.requests[2].url = <<"h", "/", "get_token">>

\* C8: every request of an operation carries Authorization: Bearer <token>
\* with the client's token, and the User-Agent naming the client.
C8_AuthorizationOnEveryRequest ==
    last.op \in Operations =>
        \A i \in 1 .. Len(last.requests) :
            /\ client.token.t = "str"
            /\ last.requests[i].headers.Authorization = "Bearer " \o client.token.v
            /\ last.requests[i].headers.UserAgent =
                   "Aleph-Alpha-Python-Client-" \o ClientVersion

C8_Witness ==
    /\ last.op = "available_models"
    /\ Len(last.requests) = 1
    /\ client.token = PyStr("srv")
    /\ last.requests[1].headers.Authorization = "Bearer srv"

\* C9: in a complete call an int given for temperature, top_p,
\* presence_penalty or frequency_penalty is not refused for its type and is
\* sent as the float of the same value; a complete request holds a float or
\* None for each of the four.
C9_IntSentAsFloat ==
    last.op = "complete" =>
        \A f \in FloatParams :
            /\ \A i \in 1 .. Len(last.requests) :
                  last.requests[i].json[f].t \in {"float", "none"}
            /\ isinstance(last.args[f], "int") =>
                  /\ last.outcome # ValueError(f \o " must be a float or None")
                  /\ \A i \in 1 .. Len(last.requests) :
                        /\ last.requests[i].json[f].t = "float"
                        /\ last.requests[i].json[f].v = Float1.v * last.args[f].v

C9_Witness ==
    /\ last.op = "complete"
    /\ last.args.temperature = PyInt(1)
    /\ last.args.presence_penalty = PyInt(MaxInt)
    /\ Len(last.requests) = 1
    /\ last.requests[1].json.temperature = Float1
    /\ last.requests[1].json.presence_penalty = float(PyInt(MaxInt))

\* C10: an embed call whose prompt is the empty string raises the ValueError
\* "prompt must contain at least one character" and sends no request.
C10_EmbedEmptyPrompt ==
    (last.op = "embed" /\ last.args.request.prompt = PyStr("")) =>
        /\ last.outcome = ValueError("prompt must contain at least one character")
        /\ last.requests = <<>>

C10_Witness ==
    /\ last.op = "embed"
    /\ last.args.request.prompt = PyStr("")
    /\ last.outcome = ValueError("prompt must contain at least one character")
    /\ last.requests = <<>>

\* C11: a qa call with an empty documents list, or with a maximum_tokens that
\* is 0 or negative, ends with a validation error and sends no request.
C11_QaEmptyDocumentsOrNoTokens ==
    (/\ last.op = "qa"
     /\ \/ last.args.documents = PyList(<<>>)
        \/ (isinstance(last.args.maximum_tokens, "int") /\ last.args.maximum_tokens.v <= 0)) =>
        /\ ValidationError(last.outcome)
        /\ last.requests = <<>>

\* the part of C11 the code keeps: a maximum_tokens that is 0 or negative
C11_QaNoTokens ==
    (/\ last.op = "qa"
     /\ isinstance(last.args.maximum_tokens, "int")
     /\ last.args.maximum_tokens.v <= 0) =>
        /\ ValidationError(last.outcome)
        /\ last.requests = <<>>

\* C12: a qa call with a negative max_answers, or with a max_chunk_size that
\* is 0 or negative, ends with a validation error and sends no request, as
\* one with a value of the wrong type for maximum_tokens, max_chunk_size,
\* max_answers or min_score does.
C12_QaRangeChecks ==
    last.op = "qa" =>
        /\ (\/ ~isinstance(last.args.maximum_tokens, "int")
            \/ ~isinstance(last.args.max_chunk_size, "int")
            \/ ~isinstance(last.args.max_answers, "int")
            \/ last.args.min_score.t \notin {"float", "int", "bool"}) =>
                (ValidationError(last.outcome) /\ last.requests = <<>>)
        /\ (\/ (isinstance(last.args.max_answers, "int") /\ last.args.max_answers.v < 0)
            \/ (isinstance(last.args.max_chunk_size, "int") /\ last.args.max_chunk_size.v <= 0)) =>
                (ValidationError(last.outcome) /\ last.requests = <<>>)

\* the part of C12 the code keeps: the type checks
C12_QaTypeChecks ==
    (/\ last.op = "qa"
     /\ \/ ~isinstance(last.args.maximum_tokens, "int")
        \/ ~isinstance(last.args.max_chunk_size, "int")
        \/ ~isinstance(last.args.max_answers, "int")
        \/ ~isinstance(last.args.min_score, "float")) =>
        /\ ValidationError(last.outcome)
        /\ last.requests = <<>>

\* the values of a logit_bias dict
BiasValues(logit_bias) ==
    { logit_bias.v[i][2] : i \in 1 .. Len(logit_bias.v) }

\* C13: an int given where a float is expected is accepted as the float of
\* the same value by every operation: a qa call is not refused for an int
\* min_score and sends it as a float, and a complete call is not refused for
\* an int bias in logit_bias.
C13_IntWidenedEverywhere ==
    /\ (last.op = "qa" /\ isinstance(last.args.min_score, "int")) =>
          /\ last.outcome # ValueError("min_score must be a float")
          /\ \A i \in 1 .. Len(last.requests) :
                last.requests[i].json.min_score = float(last.args.min_score)
    /\ (/\ last.op = "complete"
        /\ isinstance(last.args.logit_bias, "dict")
        /\ \A x \in BiasValues(last.args.logit_bias) : x.t \in {"int", "float"}) =>
          last.outcome # ValueError("a value in the logit_bias dict must be a float")

\* a positive int, an int that is not negative, a float from 0.0 to 1.0
PositiveInt(x) == isinstance(x, "int") /\ x.v > 0
NonNegativeInt(x) == isinstance(x, "int") /\ x.v >= 0
UnitFloat(x) == isinstance(x, "float") /\ x.v >= Float0.v /\ x.v <= Float1.v

\* a number from 0.0 to 1.0, given as a float or as an int
UnitNumber(x) ==
    \/ UnitFloat(x)
    \/ (isinstance(x, "int") /\ UnitFloat(float(x)))

\* C14: every complete request holds a maximum_tokens that is a positive int
\* or None, a top_k that is an int not below 0 or None, a temperature and a
\* top_p that are floats from 0.0 to 1.0 or None, and an n that is a positive
\* int; a complete call whose arguments break one of these ends with a
\* validation error and sends no request.
C14_CompleteRanges ==
    last.op = "complete" =>
        /\ \A i \in 1 .. Len(last.requests) :
              LET json == last.requests[i].json
              IN  /\ json.maximum_tokens = PyNone \/ PositiveInt(json.maximum_tokens)
                  /\ json.top_k = PyNone \/ NonNegativeInt(json.top_k)
                  /\ json.temperature = PyNone \/ UnitFloat(json.temperature)
                  /\ json.top_p = PyNone \/ UnitFloat(json.top_p)
                  /\ PositiveInt(json.n)
        /\ (\/ ~(last.args.maximum_tokens = PyNone \/ PositiveInt(last.args.maximum_tokens))
            \/ ~(last.args.top_k = PyNone \/ NonNegativeInt(last.args.top_k))
            \/ ~(last.args.temperature = PyNone \/ UnitNumber(last.args.temperature))
            \/ ~(last.args.top_p = PyNone \/ UnitNumber(last.args.top_p))
            \/ ~PositiveInt(last.args.n)) =>
                (ValidationError(last.outcome) /\ last.requests = <<>>)

\* C14 as amended: as C14, with an n that is a positive int or None.
C14_CompleteRangesOptionalN ==
    last.op = "complete" =>
        /\ \A i \in 1 .. Len(last.requests) :
              LET json == last.requests[i].json
              IN  /\ json.maximum_tokens = PyNone \/ PositiveInt(json.maximum_tokens)
                  /\ json.top_k = PyNone \/ NonNegativeInt(json.top_k)
                  /\ json.temperature = PyNone \/ UnitFloat(json.temperature)
                  /\ json.top_p = PyNone \/ UnitFloat(json.top_p)
                  /\ json.n = PyNone \/ PositiveInt(json.n)
        /\ (\/ ~(last.args.maximum_tokens = PyNone \/ PositiveInt(last.args.maximum_tokens))
            \/ ~(last.args.top_k = PyNone \/ NonNegativeInt(last.args.top_k))
            \/ ~(last.args.temperature = PyNone \/ UnitNumber(last.args.temperature))
            \/ ~(last.args.top_p = PyNone \/ UnitNumber(last.args.top_p))
            \/ ~(last.args.n = PyNone \/ PositiveInt(last.args.n))) =>
                (ValidationError(last.outcome) /\ last.requests = <<>>)

C14_Witness ==
    /\ last.op = "complete"
    /\ last.args.top_p = PyFloat(MaxInt + 1)
    /\ last.args.n = PyNone
    /\ last.outcome = ValueError("top_p must be a float between 0.0 and 1.0")
    /\ last.requests = <<>>

\* an evaluate call sent once to the evaluate endpoint, returning the decoded
\* body when the status is 200
EvaluateDone ==
    /\ Len(last.requests) = 1
    /\ RequestsTo("evaluate") = {1}
    /\ last.responses[1].status_code = 200 =>
           last.outcome = Return(last.responses[1].json)

\* the arguments of an evaluate call besides model and checkpoint are good
EvaluateGoodCall ==
    /\ last.op = "evaluate"
    /\ last.args.prompt = PyStr("hello")
    /\ last.args.completion_expected = PyStr("world")
    /\ ~request_headers_raises(client)

\* C15: an evaluate call with model=None, a checkpoint name, a non-empty
\* prompt and a non-empty completion_expected sends one request to the
\* evaluate endpoint and on status 200 returns the decoded body; likewise a
\* call with a model name and no checkpoint.
C15_EvaluateAtCheckpoint ==
    (/\ EvaluateGoodCall
     /\ \/ last.args.model = PyNone /\ "checkpoint" \in DOMAIN last.args
        \/ isinstance(last.args.model, "str") /\ "checkpoint" \notin DOMAIN last.args) =>
        EvaluateDone

\* the part of C15 the code keeps: a model name and no checkpoint
C15_EvaluateAtModel ==
    (/\ EvaluateGoodCall
     /\ isinstance(last.args.model, "str")
     /\ "checkpoint" \notin DOMAIN last.args) =>
        EvaluateDone

\* what the code does with a checkpoint: the call ends in a TypeError before
\* the method's first line, and nothing is sent
C15_CheckpointRejected ==
    (last.op = "evaluate" /\ "checkpoint" \in DOMAIN last.args) =>
        /\ last.outcome = Raise("TypeError", <<"got an unexpected keyword argument">>)
        /\ last.requests = <<>>

ModelOperations == {"model.complete", "model.tokenize", "model.detokenize",
                    "model.embed", "model.evaluate", "model.qa"}

\* the operations of AlephAlphaModel that pass the model's hosting
PassesHosting == {"model.complete", "model.embed", "model.evaluate", "model.qa"}

\* a call that ended at argument binding
FailedAtBinding ==
    /\ last.outcome.kind = "raise"
    /\ last.outcome.exc = "TypeError"
    /\ last.outcome.args \in {<<"got an unexpected keyword argument">>,
                              <<"missing a required argument">>}

\* the model's model_name, and its hosting where it passes it, are in every
\* payload sent
ModelInPayload ==
    \A i \in 1 .. Len(last.requests) :
        /\ last.requests[i].json.model = last.args.model.model_name
        /\ last.op \in PassesHosting =>
               last.requests[i].json.hosting = last.args.model.hosting

\* C16: no AlephAlphaModel operation fails at argument binding; a request
\* the client's checks accept is sent, and the payload carries the model's
\* model_name and, where the model passes it, its hosting.
C16_ModelHandsAcceptedArguments ==
    last.op \in ModelOperations =>
        /\ ~FailedAtBinding
        /\ (~ValidationError(last.outcome) /\ ~request_headers_raises(client)) =>
               Len(last.requests) = 1
        /\ ModelInPayload

\* the part of C16 the code keeps: complete, tokenize, detokenize, evaluate
C16_ModelOperationsThatBind ==
    last.op \in ModelOperations \ {"model.qa", "model.embed"} =>
        /\ ~FailedAtBinding
        /\ (~ValidationError(last.outcome) /\ ~request_headers_raises(client)) =>
               Len(last.requests) = 1
        /\ ModelInPayload

\* what the code does: every qa and every embed of AlephAlphaModel ends at
\* argument binding, before any request
C16_QaAndEmbedNeverBind ==
    last.op \in {"model.qa", "model.embed"} =>
        /\ FailedAtBinding
        /\ last.requests = <<>>

====
